---- MODULE Spec2Model ----
(***************************************************************************)
(* Contact calibration (sandboxCalibrateContact.cpp): the objective        *)
(* ContactCalibration::calc_objective evaluated by several optimizer       *)
(* worker threads over a thread-keyed registry of model clones, the        *)
(* single-threaded report printContactComparison, the contact law          *)
(* contact_force, and calibrateContact's optimizer run from opt.optimize   *)
(* to the results applied to its model.                                    *)
(*                                                                         *)
(* Numbers.  A normalized parameter x in [0,1] is carried as its numerator *)
(* k in 0..XDen (x = k / XDen).  Lengths are in units of 1/(1000*XDen) m,  *)
(* so that lower + x*(upper-lower) is an integer for every k.  Stiffness   *)
(* is in units of 5e7/XDen N/m, so that forceScalingFactor * x and the     *)
(* default stiffness 5e7 of addContact are integers.  The fictitious       *)
(* stiffness (1 N/m) is carried as 1 of that unit: its ratio to            *)
(* forceScalingFactor is not kept, the arithmetic staying within TLC's     *)
(* 32-bit integers.  A quotient a/b is carried as the pair <<a, b>>.       *)
(***************************************************************************)
EXTENDS Integers, Sequences, FiniteSets, TLC

\* ------------------------------------------------------------------ bounds
NumThreads == 2          \* optimizer worker threads
ModelWeight == 3         \* getTotalMass * getGravity().norm() of the model
MaxCalls == 3            \* objectiveFunc calls of one optimization run
XDen == 2                \* resolution of a normalized parameter
NumContacts == 2         \* contact points of the foot (numContacts)
MaxStates == 2           \* states of the trajectory
MaxStiffness == 3        \* range of the stiffness handed to contact_force
MaxHeight == 4           \* range of the height handed to contact_force
MaxIterations == 2       \* opt.setMaxIterations(3000)

Threads == 1..NumThreads

VARIABLES
    m_model,          \* ContactCalibration::m_model, the canonical model
    m_statesTraj,     \* ContactCalibration::m_statesTraj
    m_FySpline,       \* ContactCalibration::m_FySpline, time -> force
    m_numContacts,    \* ContactCalibration::m_numContacts
    m_modelMutex,     \* 0 when free, else the thread holding it
    m_workingModels,  \* thread id -> Model, the keys being its domain
    m_objCount,       \* SimTKContactCalibration::m_objCount
    pc,               \* per thread: where it is inside objectiveFunc
    x,                \* per thread: the parameter vector of its call
    f,                \* per thread: the objective last handed back, or <<>>
    fault,            \* "none", or how the process ended
    table,            \* the rows printContactComparison last wrote
    cf,               \* contact_force: the evaluation under way
    cfPrev,           \* contact_force: the evaluation before it
    calModel,         \* calibrateContact: its local Model "model"
    results,          \* calibrateContact: SimTK::Vector results
    opt,              \* calibrateContact: where it is from opt.optimize on
    stop,             \* the optimizer: "none", or why it stopped
    iter,             \* the optimizer: iterations done
    best,             \* the optimizer: << >>, or its best point and value
    out               \* what calibrateContact has written to std::cout

session == <<m_model, m_statesTraj, m_FySpline, m_numContacts>>
threads == <<m_modelMutex, m_workingModels, m_objCount, pc, x, f, fault>>
ball == <<cf, cfPrev>>
caller == <<calModel, results, opt, stop, iter, best, out>>
vars == <<session, threads, table, ball, caller>>

\* ------------------------------------------------------- the contact law

stiffness_fictitious == 1

fmax(a, b) == IF a >= b THEN a ELSE b

contact_force_unclamped(stiffness, y) ==
    LET ground_height == 0
        depth == ground_height - y
    IN  stiffness * depth + stiffness_fictitious * depth

contact_force_nofictitious(stiffness, y) ==
    LET ground_height == 0
        depth == ground_height - y
        depth_pos == fmax(0, depth)
    IN  stiffness * depth_pos

contact_force(stiffness, y) ==
    LET ground_height == 0
        depth == ground_height - y
        depth_pos == fmax(0, depth)
        contact_normal_force == stiffness * depth_pos
                                + stiffness_fictitious * depth
    IN  contact_normal_force

\* AckermannVanDenBogert2010Force::calcContactForce(state)[1]: the vertical
\* force of one contact element whose station is at height y.
calcContactForce(stiffness, y) == contact_force(stiffness, y)

\* ------------------------------------------------------------- the model

\* A Model: the local heights of marker0, marker1, ... on the foot, the
\* stiffness of the contact element attached to each, the weight
\* (getTotalMass * getGravity().norm()), and whether initSystem() has built
\* its system since it was last copied or edited.
DefaultStiffness == XDen          \* addContact(model, name): 5e7 N/m
DefaultHeight == -27 * XDen       \* Vec3(x, -0.027, 0.0)

\* Model(): no component at all.
DefaultModel == [markers |-> << >>, stiffness |-> << >>, weight |-> 0,
                 sys |-> FALSE]

FootModelExtraContact(n) ==
    [markers |-> [i \in 1..n |-> DefaultHeight],
     stiffness |-> [i \in 1..(n + 1) |-> DefaultStiffness],
     weight |-> ModelWeight,
     sys |-> FALSE]

\* calibrateContact(): numContacts markers, a contact on each.
FootModel(n) == [markers |-> [i \in 1..n |-> DefaultHeight],
                 stiffness |-> [i \in 1..n |-> DefaultStiffness],
                 weight |-> ModelWeight,
                 sys |-> FALSE]

initSystem(model) == [model EXCEPT !.sys = TRUE]

\* Model's copy: the components, not the system built from them.
CopyModel(model) == [model EXCEPT !.sys = FALSE]

\* What the copied-from model is after "m_workingModels[id] = m_model".
MovedFrom(model) == DefaultModel

CopySource(model) == model

forceScalingFactor == 2 * XDen
lower == -60 * XDen
upper == 50 * XDen

applyMarkerHeightUnshifted(normHeight) ==
    lower + (normHeight * upper) \div XDen

applyMarkerHeight(normHeight) ==
    lower + (normHeight * (upper - lower)) \div XDen

\* updComponent<Marker>("marker" + i) throws when the model has no such
\* marker.
applyThrows(model, n) == Len(model.markers) < n

applyParametersSkipLast(xv, model, n) ==
    [model EXCEPT
        !.markers = [i \in 1..Len(model.markers) |->
                        IF i <= n THEN applyMarkerHeight(xv[i])
                                  ELSE model.markers[i]],
        !.stiffness = [j \in 1..Len(model.stiffness) |->
                        IF j < Len(model.stiffness)
                        THEN (forceScalingFactor * xv[j + n]) \div XDen
                        ELSE model.stiffness[j]],
        !.sys = FALSE]

\* applyParametersToModel(x, model), for a model it does not throw on: the
\* first loop sets the height of marker0..marker(n-1), the second the
\* stiffness of every contact element of the model, the j-th from x[j + n].
applyParametersToModel(xv, model, n) ==
    [model EXCEPT
        !.markers = [i \in 1..Len(model.markers) |->
                        IF i <= n THEN applyMarkerHeight(xv[i])
                                  ELSE model.markers[i]],
        !.stiffness = [j \in 1..Len(model.stiffness) |->
                        (forceScalingFactor * xv[j + n]) \div XDen],
        !.sys = FALSE]

\* The indices of x that applyParametersToModel(x, model) reads, in order.
\* The first loop reads x[icontact] for icontact = 0, 1, ... up to the last
\* marker, or up to the first one the model lacks (the argument is read
\* before updComponent throws).
markerReads(model, n) ==
    [i \in 1..(IF Len(model.markers) < n THEN Len(model.markers) + 1 ELSE n)
        |-> i - 1]

\* The second loop, reached when the first did not throw, reads
\* x[icontact + m_numContacts] for the icontact-th contact element of the
\* model, whatever their number.
stiffnessReads(model, n) ==
    IF applyThrows(model, n) THEN << >>
    ELSE [j \in 1..Len(model.stiffness) |-> (j - 1) + n]

\* ----------------------------------------------------------- the registry

count(reg, id) == IF id \in DOMAIN reg THEN 1 ELSE 0

IndexAssignAlone(reg, id, model) == [u \in {id} |-> model]

\* m_workingModels[id] = model: the entry is made if there is none, and
\* assigned.
IndexAssign(reg, id, model) ==
    [u \in DOMAIN reg \cup {id} |-> IF u = id THEN model ELSE reg[u]]

StoreShared(reg, id, model) == [u \in DOMAIN reg |-> model]

\* The Model& that m_workingModels[id] gave, written through.
Store(reg, id, model) == [reg EXCEPT ![id] = model]

\* ---------------------------------------------------------- the objective

\* A state of the trajectory: its time, the height of the foot, and the
\* contact point locations cached in it (<< >> while none are).
NoCache == << >>

\* The copy "auto state" makes of a state of the trajectory: its cached
\* contact point locations are invalid (lines 218-220).
copyState(state) == [state EXCEPT !.contactPoints = NoCache]

loopReference(state) == [value |-> state, isCopy |-> FALSE]

\* for (auto state : m_statesTraj): the loop variable is a copy.
loopVariable(state) == [value |-> copyState(state), isCopy |-> TRUE]

\* model.realizeVelocity(state): the contact point locations, the foot's
\* height plus each marker's height on the foot, are computed unless the
\* state caches them.
realizeVelocity(model, state) ==
    [state EXCEPT !.contactPoints =
        IF @ = NoCache
        THEN [j \in 1..Len(model.markers) |-> state.y + model.markers[j]]
        ELSE @]

\* for (auto& contact : contacts) simFy += contact.calcContactForce(state)[1]
RECURSIVE sumContacts(_, _, _)
sumContacts(model, state, j) ==
    IF j > Len(model.stiffness) THEN 0
    ELSE calcContactForce(model.stiffness[j], state.contactPoints[j])
         + sumContacts(model, state, j + 1)

simFy(model, state) == sumContacts(model, state, 1)

\* m_FySpline.calcValue(timeVec)
expFy(spline, state) == spline[state.time]

residualAbs(sim, exp) == IF sim >= exp THEN sim - exp ELSE exp - sim

\* pow(simFy - expFy, 2)
residual(sim, exp) == (sim - exp) * (sim - exp)

\* for (auto state : m_statesTraj) { ... obj_value += pow(simFy - expFy, 2); }
\* gives the sum and the trajectory as the loop leaves it.
RECURSIVE accumulate(_, _, _, _, _)
accumulate(model, traj, spline, it, obj_value) ==
    IF it > Len(traj) THEN [obj_value |-> obj_value, traj |-> traj]
    ELSE LET var == loopVariable(traj[it])
             state == realizeVelocity(model, var.value)
         IN  accumulate(model,
                        [traj EXCEPT ![it] = IF var.isCopy THEN @ ELSE state],
                        spline, it + 1,
                        obj_value + residual(simFy(model, state),
                                             expFy(spline, state)))

normalizeByWeight(obj_value, mg, size) == <<obj_value, mg>>

\* obj_value /= mg * m_statesTraj.getSize()
normalize(obj_value, mg, size) == <<obj_value, mg * size>>

\* calc_objective from "auto contacts" on: the value left in obj_value, and
\* the trajectory as the loop leaves it.
objective(model, traj, spline) ==
    LET run == accumulate(model, traj, spline, 1, 0)
    IN  [value |-> normalize(run.obj_value, model.weight, Len(traj)),
         traj |-> run.traj]

comparisonLastContact(model, traj, spline) ==
    [it \in 1..Len(traj) |->
        LET state == realizeVelocity(model, copyState(traj[it]))
        IN  [time |-> state.time,
             simulation |-> sumContacts(model, state, Len(model.stiffness)),
             experiment |-> expFy(spline, state)]]

\* printContactComparison: one row per state, appended in trajectory order.
comparison(model, traj, spline) ==
    [it \in 1..Len(traj) |->
        LET state == realizeVelocity(model, copyState(traj[it]))
        IN  [time |-> state.time,
             simulation |-> simFy(model, state),
             experiment |-> expFy(spline, state)]]

\* ------------------------------------------------------------ the inputs

\* The parameter vectors the optimizer hands in: every entry at its lower
\* bound 0, every entry at its upper bound 1, and one vector whose entries
\* differ.
ConstVector(k) == [i \in 1..(2 * NumContacts) |-> k]
RampVector == [i \in 1..(2 * NumContacts) |-> (i - 1) % (XDen + 1)]
ParamVectors == {ConstVector(0), ConstVector(XDen), RampVector}

\* The trajectory of the foot: coming down through the ground.
Descending ==
    [i \in 1..MaxStates |->
        [time |-> i, y |-> (100 - 40 * i) * XDen, contactPoints |-> NoCache]]

\* Measured vertical force at the times of the trajectory.
ZeroSignal == [tm \in 1..MaxStates |-> 0]
RisingSignal == [tm \in 1..MaxStates |-> 100 * tm]
Signals == {ZeroSignal, RisingSignal}

\* Every vector within the bounds the constructors set (0 and 1).
AllVectors == [1..(2 * NumContacts) -> 0..XDen]

\* SimTK::Vector results(2 * numContacts, 0.5), to the resolution of XDen.
InitialGuess == ConstVector(XDen \div 2)

NoResult == << >>
NoInput == << >>
NoOutput == << >>
IdleForce == [stiffness |-> 0, y |-> 0, F |-> 0, done |-> FALSE]

\* ------------------------------------------------------------------ Init

\* calibrateContact as it reaches line 513: the model built, sys(model,
\* statesTraj, numContacts) made from it, results at the initial guess, the
\* optimizer configured and not yet run.
InitCaller ==
    /\ calModel = initSystem(FootModel(NumContacts))
    /\ results = InitialGuess
    /\ opt = "Idle"
    /\ stop = "none"
    /\ iter = 0
    /\ best = NoResult
    /\ out = NoOutput

\* ContactCalibration(model, statesTraj, numContacts), with the model
\* calibrateContact builds.
Init ==
    /\ m_model = initSystem(FootModel(NumContacts))
    /\ m_statesTraj = Descending
    /\ m_FySpline \in Signals
    /\ m_numContacts = NumContacts
    /\ m_modelMutex = 0
    /\ m_workingModels = << >>
    /\ m_objCount = 0
    /\ pc = [t \in Threads |-> "idle"]
    /\ x = [t \in Threads |-> NoInput]
    /\ f = [t \in Threads |-> NoResult]
    /\ fault = "none"
    /\ table = << >>
    /\ cf = IdleForce
    /\ cfPrev = IdleForce
    /\ InitCaller

\* --------------------------------------------------------------- actions

\* Another thread is in the middle of "m_workingModels[id] = m_model".
Racing(t) == \E u \in Threads \ {t} : pc[u] = "inserting"

goto(t, label) == pc' = [pc EXCEPT ![t] = label]

\* What the unlocked m_workingModels.count(thread_id) of line 186 may give:
\* the count, or, read while another thread inserts, 0.
countOutcomes(reg, t, racing) ==
    IF racing THEN {count(reg, t), 0} ELSE {count(reg, t)}

\* objectiveFunc, lines 298-300, and calc_objective up to the test of line
\* 186: if (m_workingModels.count(thread_id) == 0)
Call(t, xv) ==
    /\ fault = "none"
    /\ pc[t] = "idle"
    /\ m_objCount < MaxCalls
    /\ m_objCount' = m_objCount + 1
    /\ x' = [x EXCEPT ![t] = xv]
    /\ \E c \in countOutcomes(m_workingModels, t, Racing(t)) :
          goto(t, IF c = 0 THEN "lock" ELSE "lookup")
    /\ UNCHANGED <<session, m_modelMutex, m_workingModels, f, fault, table, ball, caller>>

\* std::unique_lock<std::mutex> lock(m_modelMutex); the assignment of line
\* 188 is under way from here until Insert.
Lock(t) ==
    /\ fault = "none"
    /\ pc[t] = "lock"
    /\ m_modelMutex = 0
    /\ m_modelMutex' = t
    /\ goto(t, "inserting")
    /\ UNCHANGED <<session, m_workingModels, m_objCount, x, f, fault, table, ball, caller>>

\* m_workingModels[thread_id] = m_model;
Insert(t) ==
    /\ fault = "none"
    /\ pc[t] = "inserting"
    /\ m_workingModels' = IndexAssign(m_workingModels, t, CopyModel(m_model))
    /\ m_model' = CopySource(m_model)
    /\ goto(t, "unlock")
    /\ UNCHANGED <<m_statesTraj, m_FySpline, m_numContacts, m_modelMutex,
                   m_objCount, x, f, fault, table, ball, caller>>

\* lock.unlock();
Unlock(t) ==
    /\ fault = "none"
    /\ pc[t] = "unlock"
    /\ m_modelMutex' = 0
    /\ goto(t, "init")
    /\ UNCHANGED <<session, m_workingModels, m_objCount, x, f, fault, table, ball, caller>>

\* What an unlocked m_workingModels[thread_id] leaves of the registry: the
\* registry when it finds the entry; a default-constructed entry in its
\* place when, read while another thread inserts, it does not.
indexOutcomes(reg, t, racing) ==
    (IF t \in DOMAIN reg THEN {reg} ELSE {})
    \cup (IF racing \/ t \notin DOMAIN reg
          THEN {IndexAssign(reg, t, DefaultModel)} ELSE {})

\* m_workingModels[thread_id].initSystem();
InitClone(t) ==
    /\ fault = "none"
    /\ pc[t] = "init"
    /\ \E reg \in indexOutcomes(m_workingModels, t, Racing(t)) :
          m_workingModels' = Store(reg, t, initSystem(reg[t]))
    /\ goto(t, "lookup")
    /\ UNCHANGED <<session, m_modelMutex, m_objCount, x, f, fault, table, ball, caller>>

\* Model& model = m_workingModels[thread_id];
\* applyParametersToModel(x, model); model.initSystem();
Apply(t) ==
    /\ fault = "none"
    /\ pc[t] = "lookup"
    /\ \E reg \in indexOutcomes(m_workingModels, t, Racing(t)) :
          /\ ~applyThrows(reg[t], m_numContacts)
          /\ m_workingModels' =
                Store(reg, t,
                      initSystem(applyParametersToModel(x[t], reg[t],
                                                        m_numContacts)))
    /\ goto(t, "eval")
    /\ UNCHANGED <<session, m_modelMutex, m_objCount, x, f, fault, table, ball, caller>>

\* The same, applyParametersToModel throwing: nothing catches it, the
\* process ends.
ApplyThrow(t) ==
    /\ fault = "none"
    /\ pc[t] = "lookup"
    /\ \E reg \in indexOutcomes(m_workingModels, t, Racing(t)) :
          /\ applyThrows(reg[t], m_numContacts)
          /\ m_workingModels' = reg
    /\ fault' = "exception"
    /\ goto(t, "ended")
    /\ UNCHANGED <<session, m_modelMutex, m_objCount, x, f, table, ball, caller>>

\* calc_objective from line 209 to its end, and objectiveFunc's return.
Evaluate(t) ==
    /\ fault = "none"
    /\ pc[t] = "eval"
    /\ LET run == objective(m_workingModels[t], m_statesTraj, m_FySpline)
       IN  /\ f' = [f EXCEPT ![t] = <<x[t], run.value>>]
           /\ m_statesTraj' = run.traj
    /\ goto(t, "idle")
    /\ UNCHANGED <<m_model, m_FySpline, m_numContacts, m_modelMutex,
                   m_workingModels, m_objCount, x, fault, table, ball, caller>>

\* An unlocked access to the registry (lines 186, 190, 192) made while
\* another thread inserts may also end the process.
RaceFault(t) ==
    /\ fault = "none"
    /\ \/ pc[t] \in {"init", "lookup"}
       \/ pc[t] = "idle" /\ m_objCount < MaxCalls
    /\ Racing(t)
    /\ fault' = "race"
    /\ goto(t, "ended")
    /\ UNCHANGED <<session, m_modelMutex, m_workingModels, m_objCount, x, f,
                   table, ball, caller>>

\* printContactComparison(x, filename), called by the thread that owns the
\* session while no evaluation runs.
PrintContactComparison(xv) ==
    /\ fault = "none"
    /\ \A t \in Threads : pc[t] = "idle"
    /\ m_model' = initSystem(applyParametersToModel(xv, m_model, m_numContacts))
    /\ table' = comparison(m_model', m_statesTraj, m_FySpline)
    /\ UNCHANGED <<m_statesTraj, m_FySpline, m_numContacts, threads, ball, caller>>

Next ==
    \/ \E t \in Threads : \E xv \in ParamVectors : Call(t, xv)
    \/ \E t \in Threads : Lock(t)
    \/ \E t \in Threads : Insert(t)
    \/ \E t \in Threads : Unlock(t)
    \/ \E t \in Threads : InitClone(t)
    \/ \E t \in Threads : Apply(t)
    \/ \E t \in Threads : ApplyThrow(t)
    \/ \E t \in Threads : Evaluate(t)
    \/ \E t \in Threads : RaceFault(t)
    \/ \E xv \in ParamVectors : PrintContactComparison(xv)

Spec == Init /\ [][Next]_vars

\* ------------------------------------------- contact_force on its own

Stiffnesses == (0 - MaxStiffness)..MaxStiffness
Heights == (0 - MaxHeight)..MaxHeight
ForceInputs == [stiffness : Stiffnesses, y : Heights, F : {0}, done : {FALSE}]

InitForce ==
    /\ m_model = initSystem(FootModel(NumContacts))
    /\ m_statesTraj = Descending
    /\ m_FySpline = ZeroSignal
    /\ m_numContacts = NumContacts
    /\ m_modelMutex = 0
    /\ m_workingModels = << >>
    /\ m_objCount = 0
    /\ pc = [t \in Threads |-> "idle"]
    /\ x = [t \in Threads |-> NoInput]
    /\ f = [t \in Threads |-> NoResult]
    /\ fault = "none"
    /\ table = << >>
    /\ cf \in ForceInputs
    /\ cfPrev = IdleForce
    /\ InitCaller

\* const auto simContactForce = contact_force(stiffness, y);
ForceEval ==
    /\ ~cf.done
    /\ cf' = [cf EXCEPT !.F = contact_force(cf.stiffness, cf.y), !.done = TRUE]
    /\ UNCHANGED <<session, threads, table, cfPrev, caller>>

\* The next sample, or the next stiffness the optimizer tries.
ForceNext ==
    /\ cf.done
    /\ cfPrev' = cf
    /\ cf' \in ForceInputs
    /\ UNCHANGED <<session, threads, table, caller>>

NextForce == ForceEval \/ ForceNext

SpecForce == InitForce /\ [][NextForce]_vars

\* ------------------------------ calibrateContact from opt.optimize on

\* std::cout << "objective: " << f ...; std::cout << "variables: " <<
\* results ... (the runtime line, which depends on the clock, is left out).
reportLines(fv, xv) ==
    <<[label |-> "objective", value |-> fv],
      [label |-> "variables", value |-> xv]>>

\* double f = opt.optimize(results): the optimizer starts.
Optimize ==
    /\ opt = "Idle"
    /\ opt' = "Running"
    /\ UNCHANGED <<session, threads, table, ball, calModel, results, stop,
                   iter, best, out>>

\* The optimizer goes on to its next iteration, within setMaxIterations.
Iteration ==
    /\ opt = "Running"
    /\ iter < MaxIterations
    /\ iter' = iter + 1
    /\ UNCHANGED <<session, threads, table, ball, calModel, results, opt,
                   stop, best, out>>

\* One call of objectiveFunc by worker t that no other worker's call
\* overlaps, from ++m_objCount to return 0; the optimizer keeps the point
\* if its value is the least so far.
ObjectiveFunc(t, xv) ==
    /\ opt = "Running"
    /\ m_objCount < MaxCalls
    /\ m_objCount' = m_objCount + 1
    /\ LET reg == IF count(m_workingModels, t) = 0
                  THEN Store(IndexAssign(m_workingModels, t,
                                         CopyModel(m_model)),
                             t, initSystem(CopyModel(m_model)))
                  ELSE m_workingModels
           applied == Store(reg, t,
                            initSystem(applyParametersToModel(
                                xv, reg[t], m_numContacts)))
           run == objective(applied[t], m_statesTraj, m_FySpline)
       IN  /\ m_model' = IF count(m_workingModels, t) = 0
                         THEN CopySource(m_model) ELSE m_model
           /\ m_workingModels' = applied
           /\ x' = [x EXCEPT ![t] = xv]
           /\ f' = [f EXCEPT ![t] = <<xv, run.value>>]
           /\ m_statesTraj' = run.traj
           /\ best' = IF best = NoResult
                      THEN <<xv, run.value>>
                      ELSE IF run.value[1] < best[2][1]
                           THEN <<xv, run.value>> ELSE best
    /\ UNCHANGED <<m_FySpline, m_numContacts, m_modelMutex, pc, fault, table,
                   ball, calModel, results, opt, stop, iter, out>>

\* A call of objectiveFunc that ends the process: objectiveFunc has no
\* failure return (it returns 0), so a call that fails does so by a racing
\* registry access (lines 186-192) or by an exception nothing catches.
EvaluationFails(t) ==
    /\ opt = "Running"
    /\ m_objCount < MaxCalls
    /\ m_objCount' = m_objCount + 1
    /\ fault' \in {"race", "exception"}
    /\ goto(t, "ended")
    /\ stop' = "evaluation"
    /\ opt' = "Ended"
    /\ UNCHANGED <<session, m_modelMutex, m_workingModels, x, f, table, ball,
                   calModel, results, iter, best, out>>

\* optimize returns, the convergence tolerance met: results holds the best
\* point, the value returned is its objective.
Converges ==
    /\ opt = "Running"
    /\ best # NoResult
    /\ results' = best[1]
    /\ stop' = "converged"
    /\ opt' = "Returned"
    /\ UNCHANGED <<session, threads, table, ball, calModel, iter, best, out>>

\* optimize stops at the iteration cap. What SimTK::Optimizer does then is
\* not fixed by this file: it returns as above ...
IterationCapReturns ==
    /\ opt = "Running"
    /\ iter = MaxIterations
    /\ best # NoResult
    /\ results' = best[1]
    /\ stop' = "maxiter"
    /\ opt' = "Returned"
    /\ UNCHANGED <<session, threads, table, ball, calModel, iter, best, out>>

\* ... or throws, and nothing in calibrateContact or main catches.
IterationCapThrows ==
    /\ opt = "Running"
    /\ iter = MaxIterations
    /\ stop' = "maxiter"
    /\ fault' = "exception"
    /\ opt' = "Ended"
    /\ UNCHANGED <<session, m_modelMutex, m_workingModels, m_objCount, pc, x,
                   f, table, ball, calModel, results, iter, best, out>>

OptimizerFailsQuietly ==
    /\ opt = "Running"
    /\ best # NoResult
    /\ results' = best[1]
    /\ stop' = "failed"
    /\ opt' = "Returned"
    /\ UNCHANGED <<session, threads, table, ball, calModel, iter, best, out>>

\* The optimizer itself fails: optimize throws, and nothing catches.
OptimizerFails ==
    /\ opt = "Running"
    /\ stop' = "failed"
    /\ fault' = "exception"
    /\ opt' = "Ended"
    /\ UNCHANGED <<session, m_modelMutex, m_workingModels, m_objCount, pc, x,
                   f, table, ball, calModel, results, iter, best, out>>

\* Lines 514-516: whatever optimize returned is printed.
Report ==
    /\ opt = "Returned"
    /\ out' = reportLines(best[2], results)
    /\ opt' = "Reported"
    /\ UNCHANGED <<session, threads, table, ball, calModel, results, stop,
                   iter, best>>

\* sys.printContactComparison(results, ...)
PrintResults ==
    /\ opt = "Reported"
    /\ m_model' = initSystem(applyParametersToModel(results, m_model,
                                                    m_numContacts))
    /\ table' = comparison(m_model', m_statesTraj, m_FySpline)
    /\ opt' = "Printed"
    /\ UNCHANGED <<m_statesTraj, m_FySpline, m_numContacts, threads, ball,
                   calModel, results, stop, iter, best, out>>

\* sys.applyParametersToModel(results, model)
ApplyResults ==
    /\ opt = "Printed"
    /\ ~applyThrows(calModel, m_numContacts)
    /\ calModel' = applyParametersToModel(results, calModel, m_numContacts)
    /\ opt' = "Applied"
    /\ UNCHANGED <<session, threads, table, ball, results, stop, iter, best,
                   out>>

NextCalibrate ==
    \/ Optimize
    \/ Iteration
    \/ \E t \in Threads : \E xv \in ParamVectors : ObjectiveFunc(t, xv)
    \/ \E t \in Threads : EvaluationFails(t)
    \/ Converges
    \/ IterationCapReturns
    \/ IterationCapThrows
    \/ OptimizerFails
    \/ Report
    \/ PrintResults
    \/ ApplyResults

SpecCalibrate == Init /\ [][NextCalibrate]_vars

\* --------------------------------- applyParametersToModel on its own

\* calibrateContact about to hand results to applyParametersToModel, for
\* any results within the bounds and a model as built or already applied to.
InitApply ==
    /\ m_model = initSystem(FootModel(NumContacts))
    /\ m_statesTraj = Descending
    /\ m_FySpline = ZeroSignal
    /\ m_numContacts = NumContacts
    /\ m_modelMutex = 0
    /\ m_workingModels = << >>
    /\ m_objCount = 0
    /\ pc = [t \in Threads |-> "idle"]
    /\ x = [t \in Threads |-> NoInput]
    /\ f = [t \in Threads |-> NoResult]
    /\ fault = "none"
    /\ table = << >>
    /\ cf = IdleForce
    /\ cfPrev = IdleForce
    /\ calModel \in {initSystem(FootModel(NumContacts)),
                     applyParametersToModel(InitialGuess,
                                            FootModel(NumContacts),
                                            NumContacts)}
    /\ results \in AllVectors
    /\ opt = "Printed"
    /\ stop = "converged"
    /\ iter = 0
    /\ best = NoResult
    /\ out = NoOutput

NextApply == ApplyResults

SpecApply == InitApply /\ [][NextApply]_vars

\* ================================================================ claims

\* The session as ContactCalibration's constructor leaves it.
Constructed == initSystem(FootModel(NumContacts))

\* The model holds the marker heights and contact stiffnesses xv stands for.
HoldsParameters(model, xv) ==
    /\ Len(model.markers) = NumContacts
    /\ Len(model.stiffness) = NumContacts
    /\ \A i \in 1..NumContacts :
          /\ model.markers[i] = lower + (xv[i] * (upper - lower)) \div XDen
          /\ model.stiffness[i] =
                (forceScalingFactor * xv[NumContacts + i]) \div XDen

\* What calc_objective(xv) gives as the only call a session ever sees.
FirstCallValue(xv) ==
    objective(initSystem(applyParametersToModel(
                  xv, initSystem(CopyModel(Constructed)), NumContacts)),
              Descending, m_FySpline).value

\* A step in which thread t reads or indexes the registry without the lock
\* (lines 186, 190, 192).
UnlockedAccess(t) == pc[t] \in {"idle", "init", "lookup"} /\ pc'[t] # pc[t]

\* C1: no thread makes an unlocked access to m_workingModels (the count of
\* line 186, the operator[] of lines 190 and 192) while another thread is in
\* the middle of inserting its entry.
C1_NoAccessWhileInserting ==
    [][\A t \in Threads : UnlockedAccess(t) => ~Racing(t)]_vars

\* C2: once a thread has its entry in m_workingModels, the entry stays, is
\* never created a second time by the assignment of line 188, and is never
\* replaced by another Model.
C2_OneCloneEverPerThread ==
    [][\A t \in Threads :
          t \in DOMAIN m_workingModels =>
             /\ t \in DOMAIN m_workingModels'
             /\ ~(pc[t] = "inserting" /\ pc'[t] = "unlock")
             /\ Len(m_workingModels'[t].markers)
                   = Len(m_workingModels[t].markers)]_vars

\* C3: m_modelMutex is held by a thread exactly while it inserts its own new
\* clone: a thread that already has a clone never holds it, at most one
\* thread inserts, and no thread holds it while initializing or evaluating.
C3_MutexOnlyForNewClone ==
    /\ \A t \in Threads :
          /\ pc[t] \in {"inserting", "unlock"} => m_modelMutex = t
          /\ pc[t] = "inserting" => t \notin DOMAIN m_workingModels
          /\ pc[t] \in {"idle", "lock", "init", "lookup", "eval"}
                => m_modelMutex # t
    /\ Cardinality({t \in Threads : pc[t] = "inserting"}) <= 1

\* A step in which thread t applies its parameter vector to its clone.
ApplyStep(t) == pc[t] = "lookup" /\ pc'[t] = "eval"

\* C4: applying a parameter vector through one thread's clone leaves every
\* other thread's clone as it was, and a thread that has returned still finds
\* in its clone the heights and stiffnesses of its own last vector, whatever
\* the other threads applied since.
C4_ApplyLeavesOtherClones ==
    /\ [](\A u \in Threads :
             (pc[u] = "idle" /\ f[u] # NoResult)
                => HoldsParameters(m_workingModels[u], f[u][1]))
    /\ [][\A t \in Threads :
             ApplyStep(t) =>
                \A u \in DOMAIN m_workingModels \ {t} :
                   /\ u \in DOMAIN m_workingModels'
                   /\ m_workingModels'[u] = m_workingModels[u]]_vars

\* Thread t has just applied a vector while thread u, which has returned,
\* holds a clone with other heights.
C4_Witness ==
    \E t, u \in Threads :
       /\ t # u
       /\ pc[t] = "eval"
       /\ pc[u] = "idle" /\ f[u] # NoResult
       /\ m_workingModels[u].markers # m_workingModels[t].markers

\* C5 as stated: once the first clone has been copied from m_model, no later
\* operation, printContactComparison included, changes m_model.
C5_CanonicalNeverChanges ==
    [][DOMAIN m_workingModels # {} => m_model' = m_model]_vars

\* C5 as amended: no step of calc_objective changes m_model; it has its
\* constructed value until printContactComparison is first called, and each
\* printContactComparison(x) leaves in it the heights and stiffnesses of x.
C5_OnlyPrintChangesCanonical ==
    /\ [](table = << >> => m_model = Constructed)
    /\ [][m_model' # m_model =>
             /\ \A t \in Threads : pc[t] = "idle" /\ pc'[t] = "idle"
             /\ table' # << >>
             /\ \E xv \in ParamVectors : HoldsParameters(m_model', xv)]_vars

\* A thread has copied, as its clone, the canonical model that
\* printContactComparison changed.
C5_Witness ==
    \E t \in Threads :
       /\ pc[t] = "unlock"
       /\ m_model # Constructed
       /\ table # << >>
       /\ m_workingModels[t] = CopyModel(m_model)

\* C6: the value handed back for a vector is the same on every thread and
\* under every interleaving: it is the value the vector gets as the only
\* call of a session, and two threads that last returned for the same vector
\* hold the same value.
C6_ValueIndependentOfThread ==
    /\ \A t \in Threads :
          f[t] # NoResult => f[t][2] = FirstCallValue(f[t][1])
    /\ \A t, u \in Threads :
          (f[t] # NoResult /\ f[u] # NoResult /\ f[t][1] = f[u][1])
             => f[t][2] = f[u][2]

\* Two threads have returned for the same vector, one of them after a call
\* with another vector.
C6_Witness ==
    \E t, u \in Threads :
       /\ t # u
       /\ pc[t] = "idle" /\ pc[u] = "idle"
       /\ f[t] # NoResult /\ f[u] # NoResult
       /\ f[t][1] = f[u][1]
       /\ m_objCount >= 3

\* A step in which thread t computes and hands back its objective value.
EvaluateStep(t) == pc[t] = "eval" /\ pc'[t] = "idle"

\* C7: on one thread the value of calc_objective(x) does not depend on the
\* vectors evaluated before: when the forces are computed the clone holds the
\* heights and stiffnesses of x alone, the trajectory is left as it was, the
\* value is that of a first call, and a call repeating the vector of the call
\* before returns the value of the call before.
C7_ValueIndependentOfHistory ==
    /\ [](\A t \in Threads :
             pc[t] = "eval" => HoldsParameters(m_workingModels[t], x[t]))
    /\ [][\A t \in Threads :
             EvaluateStep(t) =>
                /\ m_statesTraj' = m_statesTraj
                /\ f'[t] = <<x[t], FirstCallValue(x[t])>>
                /\ (f[t] # NoResult /\ f[t][1] = x[t]) => f'[t] = f[t]]_vars

\* One thread has made every call of the run, the last with a vector that
\* differs from the one its clone held.
C7_Witness ==
    \E t \in Threads :
       /\ DOMAIN m_workingModels = {t}
       /\ m_objCount >= 3
       /\ pc[t] = "eval"
       /\ f[t] # NoResult /\ f[t][1] # x[t]

\* C8: a step of a calc_objective call of thread t leaves m_model,
\* m_statesTraj, m_FySpline, m_numContacts and every other thread's clone
\* unchanged, and adds to the registry nothing but t's own entry.
C8_CallChangesOwnCloneOnly ==
    [][\A t \in Threads :
          pc'[t] # pc[t] =>
             /\ session' = session
             /\ DOMAIN m_workingModels' \subseteq DOMAIN m_workingModels \cup {t}
             /\ \A u \in DOMAIN m_workingModels \ {t} :
                   /\ u \in DOMAIN m_workingModels'
                   /\ m_workingModels'[u] = m_workingModels[u]]_vars

\* A thread has just inserted its clone beside the clone of a thread that
\* has returned.
C8_Witness ==
    \E t, u \in Threads :
       /\ t # u
       /\ pc[t] = "unlock"
       /\ f[u] # NoResult
       /\ DOMAIN m_workingModels = {t, u}

\* C9: with depth = -y, contact_force(stiffness, y) is
\* stiffness_fictitious * depth when depth <= 0 (0 at depth 0, never
\* positive, whatever the stiffness) and stiffness * depth +
\* stiffness_fictitious * depth when depth > 0, where it grows strictly with
\* the depth (stiffness >= 0) and strictly with the stiffness.
C9_ContactLaw ==
    /\ cf.done =>
          LET depth == 0 - cf.y
          IN  /\ depth <= 0 => /\ cf.F = stiffness_fictitious * depth
                               /\ cf.F <= 0
                               /\ (depth = 0 => cf.F = 0)
              /\ depth > 0 => cf.F = cf.stiffness * depth
                                     + stiffness_fictitious * depth
    /\ (cf.done /\ cfPrev.done /\ cf.y < 0 /\ cfPrev.y < 0) =>
          /\ (cf.stiffness = cfPrev.stiffness /\ cf.stiffness >= 0
                 /\ cfPrev.y > cf.y) => cfPrev.F < cf.F
          /\ (cf.y = cfPrev.y /\ cfPrev.stiffness < cf.stiffness)
                => cfPrev.F < cf.F

\* A penetrating evaluation follows one above ground, both with a stiffness
\* that is not 0.
C9_Witness ==
    /\ cf.done /\ cfPrev.done
    /\ cf.y < 0 /\ cfPrev.y > 0
    /\ cf.stiffness > 0 /\ cfPrev.stiffness > 0
    /\ cf.F > 0 /\ cfPrev.F < 0

\* The simulated vertical force at a foot height: the force of every contact
\* element of the model, each at the height of its marker, added up.
C10_SimulatedForce(model, y) ==
    LET S[j \in 0..Len(model.stiffness)] ==
           IF j = 0 THEN 0
           ELSE S[j - 1]
                + calcContactForce(model.stiffness[j], y + model.markers[j])
    IN  S[Len(model.stiffness)]

C10_SumOfSquares(model, traj, spline) ==
    LET S[k \in 0..Len(traj)] ==
           IF k = 0 THEN 0
           ELSE LET d == C10_SimulatedForce(model, traj[k].y)
                         - spline[traj[k].time]
                IN  S[k - 1] + d * d
    IN  S[Len(traj)]

C10_SumOfSquaredForces(model, traj) ==
    LET S[k \in 0..Len(traj)] ==
           IF k = 0 THEN 0
           ELSE S[k - 1] + C10_SimulatedForce(model, traj[k].y)
                           * C10_SimulatedForce(model, traj[k].y)
    IN  S[Len(traj)]

\* C10: the value calc_objective hands back is the sum, over the states of
\* the trajectory, of (simulated vertical force over all contacts -
\* experimental force at the state's time) squared, over (weight of the model
\* * number of states); it is not negative, and with an all-zero experimental
\* signal it is the sum of the squared simulated forces over the same.
C10_NormalizedSumOfSquares ==
    \A t \in Threads :
       (pc[t] = "idle" /\ f[t] # NoResult) =>
          LET model == m_workingModels[t]
              value == f[t][2]
          IN  /\ value = <<C10_SumOfSquares(model, m_statesTraj, m_FySpline),
                           model.weight * Len(m_statesTraj)>>
              /\ value[1] >= 0
              /\ value[2] > 0
              /\ m_FySpline = ZeroSignal =>
                    value[1] = C10_SumOfSquaredForces(model, m_statesTraj)

\* A value was handed back for an all-zero experimental signal and forces
\* that are not all 0.
C10_Witness ==
    \E t \in Threads :
       /\ pc[t] = "idle" /\ f[t] # NoResult
       /\ m_FySpline = ZeroSignal
       /\ f[t][2][1] > 0

\* C11: applyParametersToModel(x, model) sets, for every contact i, the
\* height of marker i to lower + x[i] * (upper - lower) and the stiffness of
\* contact element i to x[numContacts + i] * forceScalingFactor; x[i] = 0
\* gives exactly lower, x[i] = 1 exactly upper, and every vector within the
\* bounds, the boundary values included, is applied without error.
C11_ParameterMapping ==
    /\ opt = "Printed" => ENABLED ApplyResults
    /\ opt = "Applied" =>
          /\ fault = "none"
          /\ Len(calModel.markers) = NumContacts
          /\ Len(calModel.stiffness) = NumContacts
          /\ \A i \in 1..NumContacts :
                /\ XDen * (calModel.markers[i] - lower)
                      = results[i] * (upper - lower)
                /\ XDen * calModel.stiffness[i]
                      = results[NumContacts + i] * forceScalingFactor
                /\ results[i] = 0 => calModel.markers[i] = lower
                /\ results[i] = XDen => calModel.markers[i] = upper

\* A vector with one height at each boundary has been applied.
C11_Witness ==
    /\ opt = "Applied"
    /\ \E i, j \in 1..NumContacts :
          /\ results[i] = 0 /\ calModel.markers[i] = lower
          /\ results[j] = XDen /\ calModel.markers[j] = upper
          /\ results[NumContacts + i] = XDen
          /\ results[NumContacts + j] = 0

\* calibrateContact has left optimize, by return and print or by exception.
Finished == opt \in {"Reported", "Printed", "Applied", "Ended"}

\* C12 as stated: a run ends in one of three outcomes that the caller can
\* tell apart: convergence is reported as a result, a failure is not, and
\* hitting the iteration cap is reported unlike either.
C12_ThreeDistinctOutcomes ==
    Finished =>
       /\ stop \in {"converged", "maxiter", "failed", "evaluation"}
       /\ stop = "converged" =>
             fault = "none" /\ out = reportLines(best[2], results)
       /\ stop \in {"failed", "evaluation"} =>
             fault # "none" /\ out = NoOutput
       /\ stop = "maxiter" =>
             fault = "none" /\ out # reportLines(best[2], results)

C12_Outcome ==
    /\ opt = "Idle" => stop = "none" /\ out = NoOutput /\ fault = "none"
    /\ opt \in {"Idle", "Running", "Returned"} => out = NoOutput
    /\ opt \in {"Returned", "Reported", "Printed", "Applied"} =>
          /\ stop \in {"converged", "maxiter"}
          /\ fault = "none"
    /\ opt \in {"Reported", "Printed", "Applied"} =>
          out = reportLines(best[2], results)
    /\ opt = "Ended" =>
          /\ stop \in {"maxiter", "failed", "evaluation"}
          /\ fault # "none"
          /\ out = NoOutput
    /\ stop \in {"failed", "evaluation"} => opt = "Ended"

C12_Step ==
    /\ opt = "Idle" => opt' \in {"Idle", "Running"}
    /\ opt \in {"Applied", "Ended"} => opt' = opt
    /\ stop # "none" => stop' = stop
    /\ out # NoOutput => out' = out

\* C12, amended: a run moves Idle -> Running on optimize() and ends in
\* exactly one of two reported ways: optimize() returns and the objective
\* and variables are printed, in the same form whether the optimizer
\* converged or stopped at its iteration cap, or an exception ends the
\* process with nothing printed; a failure of the optimizer or of an
\* evaluation is always of the second kind.
C12_TwoReportedOutcomes == []C12_Outcome /\ [][C12_Step]_vars

\* A run that stopped at the iteration cap has been reported and finished.
C12_Witness ==
    /\ opt = "Applied"
    /\ stop = "maxiter"
    /\ iter = MaxIterations
    /\ out = reportLines(best[2], results)

RECURSIVE C13_SumOfRows(_, _)
C13_SumOfRows(rows, it) ==
    IF it > Len(rows) THEN 0
    ELSE (rows[it].simulation - rows[it].experiment)
            * (rows[it].simulation - rows[it].experiment)
         + C13_SumOfRows(rows, it + 1)

\* The clone calc_objective(xv) evaluates.
C13_Clone(xv) ==
    initSystem(applyParametersToModel(xv, initSystem(CopyModel(Constructed)),
                                      NumContacts))

\* C13: printContactComparison(x, filename) emits one row per trajectory
\* state, in trajectory order, keyed by the state's time, holding the
\* simulated and experimental vertical forces calc_objective(x) uses for
\* that state; the sum of squared differences of the rows divided by
\* (model weight x number of states) equals calc_objective(x).
C13_RowsMatchObjective ==
    table # << >> =>
       /\ Len(table) = Len(m_statesTraj)
       /\ \A it \in 1..Len(table) : table[it].time = m_statesTraj[it].time
       /\ \E xv \in ParamVectors : HoldsParameters(m_model, xv)
       /\ \A xv \in ParamVectors :
             HoldsParameters(m_model, xv) =>
                LET value == <<C13_SumOfRows(table, 1),
                               m_model.weight * Len(table)>>
                IN  /\ value = FirstCallValue(xv)
                    /\ \A t \in Threads :
                          (pc[t] = "idle" /\ f[t] # NoResult /\ f[t][1] = xv)
                             => f[t][2] = value
                    /\ \A it \in 1..Len(table) :
                          LET state == realizeVelocity(
                                  C13_Clone(xv),
                                  loopVariable(m_statesTraj[it]).value)
                          IN  /\ table[it].simulation
                                    = simFy(C13_Clone(xv), state)
                              /\ table[it].experiment
                                    = expFy(m_FySpline, state)

\* The rows of a vector whose entries differ, printed against a measured
\* force that is not zero, after calc_objective was called with that vector.
C13_Witness ==
    /\ table # << >>
    /\ m_FySpline = RisingSignal
    /\ HoldsParameters(m_model, RampVector)
    /\ \E t \in Threads :
          /\ pc[t] = "idle"
          /\ f[t] # NoResult
          /\ f[t][1] = RampVector
    /\ \E it \in 1..Len(table) : table[it].simulation # 0

\* The models handed to applyParametersToModel: the canonical model
\* (printContactComparison), calibrateContact's own model, the clones of
\* the registry, and the default-constructed entry that
\* m_workingModels[thread_id] gives where it finds none.
C14_Passed ==
    {m_model, calModel, DefaultModel}
    \cup {m_workingModels[t] : t \in DOMAIN m_workingModels}

====
